---- MODULE Spec2Model ----
(***************************************************************************)
(* Model of check_nft_ownership.py: a multithreaded ERC-721 ownership      *)
(* checker.  The specifications share the operators that model the code:   *)
(*   RetrySpec   invocations of the retry_on_failure wrapper               *)
(*   ScanSpec    one invocation of check_nft_ownership                     *)
(*   Spec        a whole run of main(): submission, worker pool, SIGINT,   *)
(*               completion drain, batched CSV appends, summary            *)
(*   FairSpec    the run with threads that keep being scheduled            *)
(*   CrashSpec   the run with scan tasks that may raise                    *)
(*   CancelSpec  the run with one worker that is cancelled after 2 scans   *)
(***************************************************************************)
EXTENDS Integers, Sequences, FiniteSets, TLC

----------------------------------------------------------------------------
(* Bounds of the model *)

\* largest number of valid lines of input_addresses.txt
MaxAddresses == 3
\* largest number of contracts of nft_contracts.txt
MaxContracts == 2
\* ThreadPoolExecutor(max_workers=NUM_THREADS); the default of 12 is scaled down
NUM_THREADS == 2
\* the default of 50 is scaled down
BATCH_SIZE == 2
\* largest number of invocations of one wrapped function in RetrySpec
MaxInvocations == 2

(* Program constants *)

\* MAX_RETRIES = int(os.getenv("MAX_RETRIES", "4"))
MAX_RETRIES == 4
\* BASE_DELAY = 1.5 seconds, in tenths of a second
BASE_DELAY == 15
\* samples of random.random() in [0, 1), in hundredths
JitterSamples == {0, 50, 99}

----------------------------------------------------------------------------
(* What one underlying call balanceOf(address).call() > 0 can do *)

\* retry_exceptions of retry_on_failure
retry_exceptions ==
    {"TimeExhausted", "BadFunctionCallOutput", "ContractLogicError", "IOError"}

\* any exception raised by the call that is not in retry_exceptions
OtherErrors == {"ValueError"}

CallOutcomes == {"True", "False"} \cup retry_exceptions \cup OtherErrors

----------------------------------------------------------------------------
VARIABLES
    \* ---- a run of main()
    addresses,    \* validate_addresses(addresses_raw): list of checksummed identities
    contracts,    \* load_contracts(...): the ordered list of contract handles
    num_threads,  \* NUM_THREADS as read from the environment
    batch_size,   \* BATCH_SIZE as read from the environment
    stop_event,   \* threading.Event set by the SIGINT handler
    mainPc,       \* position of the main thread
    nsub,         \* number of futures submitted: futures are the tasks 1..nsub
    task,         \* task[i]: the scan of addresses[i] in the pool
    yielded,      \* futures yielded so far by as_completed, in order
    buffer,       \* main's buffer of (address, owns) rows
    checked,      \* main's counter
    owned,        \* main's counter
    csv,          \* OUTPUT_FILE: [exists, lines]
    appends,      \* the batches append_results was invoked with, in order
    summary,      \* the "Completed" log line, once emitted
    atStop,       \* the futures running or finished when stop_event was set
    \* ---- one invocation of check_nft_ownership (ScanSpec)
    scan,         \* the scan's state
    evald,        \* the contracts has_erc721_balance was entered for, in order
    oracle,       \* oracle[c]: what contract c answers for the scanned address
    lateCalls,    \* the contracts of the underlying calls made with stop_event set
    \* ---- one invocation of the retry wrapper (RetrySpec)
    rw,           \* the wrapper's state
    rwOp,         \* the wrapped operation's behaviour
    rwMax,        \* max_retries
    rwCalls,      \* number of calls of fn so far, in this invocation
    rwSleeps,     \* the time.sleep arguments so far, in this invocation
    rwRound       \* which invocation of the wrapper this is

configVars == <<addresses, contracts, num_threads, batch_size>>
runVars == <<configVars, mainPc, nsub, task, yielded, buffer,
             checked, owned, csv, appends, summary>>
scanVars == <<scan, oracle, evald, lateCalls>>
retryVars == <<rw, rwOp, rwMax, rwCalls, rwSleeps, rwRound>>
vars == <<runVars, stop_event, atStop, scanVars, retryVars>>

----------------------------------------------------------------------------
(* retry_on_failure *)

IdleW == [attempt |-> 0, delay |-> 0, st |-> "idle", val |-> "-"]

\* wrapper entry: delay = base_delay; first iteration of range(1, max_retries + 1)
WrapperStart(base_delay) ==
    [attempt |-> 1, delay |-> base_delay, st |-> "running", val |-> "-"]

\* wrapper entry of an invocation that follows one that ended in state prev:
\* attempt and delay are locals of wrapper, set afresh
WrapperEnterKeepsDelay(prev, base_delay) ==
    [WrapperStart(base_delay) EXCEPT !.delay = prev.delay]

WrapperEnter(prev, base_delay) == WrapperStart(base_delay)

\* sleep_for = delay * (1.0 + random.random() * 0.3), in 1/1000 of a delay unit,
\* u being random.random() in hundredths: delay * (1000 + 1000 * 0.3 * u / 100)
SleepFor(delay, u) == delay * (1000 + 3 * u)

\* one iteration of the wrapper's loop, the call of fn having done `o`
WrapperStepNoDoubling(w, o, max_retries) ==
    IF o \in {"True", "False"}
    THEN [w EXCEPT !.st = "returned", !.val = o]
    ELSE IF o \in retry_exceptions /\ w.attempt # max_retries
    THEN [w EXCEPT !.attempt = @ + 1]
    ELSE [w EXCEPT !.st = "raised", !.val = o]

WrapperStepRetryAny(w, o, max_retries) ==
    IF o \in {"True", "False"}
    THEN [w EXCEPT !.st = "returned", !.val = o]
    ELSE IF w.attempt # max_retries
    THEN [w EXCEPT !.attempt = @ + 1, !.delay = @ * 2]
    ELSE [w EXCEPT !.st = "raised", !.val = o]

WrapperStep(w, o, max_retries) ==
    IF o \in {"True", "False"}
    THEN [w EXCEPT !.st = "returned", !.val = o]
    ELSE IF o \in retry_exceptions /\ w.attempt # max_retries
    THEN [w EXCEPT !.attempt = @ + 1, !.delay = @ * 2]
    ELSE [w EXCEPT !.st = "raised", !.val = o]

\* whether that iteration sleeps before the next one
WrapperSleeps(w, o, max_retries) ==
    o \in retry_exceptions /\ w.attempt # max_retries

----------------------------------------------------------------------------
(* The wrapped operation of RetrySpec: in every invocation it raises `exc`   *)
(* on its first `fails` calls and returns `then` on the later ones.          *)

OpBehaviours ==
    [fails : 0..MAX_RETRIES,
     exc : retry_exceptions \cup OtherErrors,
     then : {"True", "False"}]

OpCall(b, n) == IF n <= b.fails THEN b.exc ELSE b.then

RetryInit ==
    /\ rwMax \in 1..MAX_RETRIES
    /\ rwOp \in OpBehaviours
    /\ rw = WrapperStart(BASE_DELAY)
    /\ rwCalls = 0
    /\ rwSleeps = <<>>
    /\ rwRound = 1

\* one iteration: call fn, then return, raise, or sleep and go round
RetryCall ==
    /\ rw.st = "running"
    /\ \E u \in JitterSamples :
         LET o == OpCall(rwOp, rwCalls + 1) IN
         /\ rw' = WrapperStep(rw, o, rwMax)
         /\ rwCalls' = rwCalls + 1
         /\ rwSleeps' = IF WrapperSleeps(rw, o, rwMax)
                        THEN Append(rwSleeps, SleepFor(rw.delay, u))
                        ELSE rwSleeps
    /\ UNCHANGED <<rwOp, rwMax, rwRound>>

\* the decorated function is invoked again after an invocation has ended
RetryAgain ==
    /\ rw.st \in {"returned", "raised"}
    /\ rwRound < MaxInvocations
    /\ rw' = WrapperEnter(rw, BASE_DELAY)
    /\ rwCalls' = 0
    /\ rwSleeps' = <<>>
    /\ rwRound' = rwRound + 1
    /\ UNCHANGED <<rwOp, rwMax>>

RetryParked ==
    /\ rw = IdleW
    /\ rwOp = [fails |-> 0, exc |-> "IOError", then |-> "False"]
    /\ rwMax = MAX_RETRIES
    /\ rwCalls = 0
    /\ rwSleeps = <<>>
    /\ rwRound = 0

----------------------------------------------------------------------------
(* check_nft_ownership *)

ScanNew ==
    [st |-> "new", pc |-> "-", ci |-> 0, w |-> IdleW, result |-> FALSE,
     cut |-> FALSE, raised |-> FALSE]

ScanQueued == [ScanNew EXCEPT !.st = "queued"]

\* return address, owns; `cut` records a return forced by stop_event
ScanReturn(s, owns, cut) ==
    [st |-> "done", pc |-> "-", ci |-> 0, w |-> IdleW, result |-> owns,
     cut |-> cut, raised |-> FALSE]

\* the task ends with an exception instead of a return value
ScanRaise(s) ==
    [st |-> "done", pc |-> "-", ci |-> 0, w |-> IdleW, result |-> FALSE,
     cut |-> FALSE, raised |-> TRUE]

\* if stop_event.is_set(): return address, False
ScanEntry(s, stop) ==
    IF stop
    THEN ScanReturn(s, FALSE, TRUE)
    ELSE [s EXCEPT !.st = "running", !.pc = "loop", !.ci = 1]

\* the head of `for contract in contracts`, with its stop_event check, up to
\* the entry of has_erc721_balance; n is len(contracts)
ScanLoopUnchecked(s, stop, n) ==
    IF s.ci > n
    THEN ScanReturn(s, FALSE, FALSE)
    ELSE [s EXCEPT !.pc = "call", !.w = WrapperStart(BASE_DELAY)]

ScanLoop(s, stop, n) ==
    IF s.ci > n
    THEN ScanReturn(s, FALSE, FALSE)
    ELSE IF stop
    THEN ScanReturn(s, FALSE, TRUE)
    ELSE [s EXCEPT !.pc = "call", !.w = WrapperStart(BASE_DELAY)]

\* the scan after the wrapper of has_erc721_balance has reached state w
ScanAfterNoShortCircuit(s, w) ==
    IF w.st = "running"
    THEN [s EXCEPT !.w = w]
    ELSE [s EXCEPT !.pc = "loop", !.ci = @ + 1, !.w = IdleW]

ScanAfterSameContract(s, w) ==
    IF w.st = "running"
    THEN [s EXCEPT !.w = w]
    ELSE IF w.st = "returned" /\ w.val = "True"
    THEN ScanReturn(s, TRUE, FALSE)
    ELSE [s EXCEPT !.pc = "loop", !.w = IdleW]

ScanAfterAbortOnError(s, w) ==
    IF w.st = "running"
    THEN [s EXCEPT !.w = w]
    ELSE IF w.st = "returned" /\ w.val = "True"
    THEN ScanReturn(s, TRUE, FALSE)
    ELSE IF w.st = "raised"
    THEN ScanReturn(s, FALSE, FALSE)
    ELSE [s EXCEPT !.pc = "loop", !.ci = @ + 1, !.w = IdleW]

ScanAfter(s, w) ==
    IF w.st = "running"
    THEN [s EXCEPT !.w = w]
    ELSE IF w.st = "returned" /\ w.val = "True"
    THEN ScanReturn(s, TRUE, FALSE)
    ELSE [s EXCEPT !.pc = "loop", !.ci = @ + 1, !.w = IdleW]

\* one attempt of has_erc721_balance(address, contract) inside the try of
\* check_nft_ownership, the underlying call having done `o`
ScanCall(s, o) == ScanAfter(s, WrapperStep(s.w, o, MAX_RETRIES))

----------------------------------------------------------------------------
(* ScanSpec: one scan against contracts whose answers are fixed beforehand. *)
(* Contract c raises TimeExhausted on its first `fails` calls and does      *)
(* `then` on the later ones.                                                *)

ContractBehaviours ==
    [fails : {0, 1, MAX_RETRIES},
     then : {"True", "False"} \cup OtherErrors]

OracleCall(b, n) == IF n <= b.fails THEN "TimeExhausted" ELSE b.then

\* the wrapper's loop run to its end against a contract behaving as b
RECURSIVE WrapperRun(_, _, _)
WrapperRun(w, b, max_retries) ==
    IF w.st # "running"
    THEN w
    ELSE WrapperRun(WrapperStep(w, OracleCall(b, w.attempt), max_retries),
                    b, max_retries)

\* @retry_on_failure() def has_erc721_balance: the defaults MAX_RETRIES, BASE_DELAY
has_erc721_balance(b) == WrapperRun(WrapperStart(BASE_DELAY), b, MAX_RETRIES)

OracleLists ==
    UNION {[1..n -> ContractBehaviours] : n \in 0..MaxContracts}

ScanInit ==
    /\ oracle \in OracleLists
    /\ scan = ScanQueued
    /\ evald = <<>>
    /\ lateCalls = <<>>

ScanParked ==
    /\ oracle = <<>>
    /\ scan = ScanNew
    /\ evald = <<>>
    /\ lateCalls = <<>>

\* the task starts running check_nft_ownership
ScanBegin ==
    /\ scan.st = "queued"
    /\ scan' = ScanEntry(scan, stop_event)
    /\ UNCHANGED <<oracle, evald, lateCalls, stop_event>>

ScanLoopStep ==
    /\ scan.st = "running" /\ scan.pc = "loop"
    /\ scan' = ScanLoop(scan, stop_event, Len(oracle))
    /\ evald' = IF scan'.pc = "call" THEN Append(evald, scan.ci) ELSE evald
    /\ UNCHANGED <<oracle, lateCalls, stop_event>>

ScanCallStep ==
    /\ scan.st = "running" /\ scan.pc = "call"
    /\ scan' = ScanCall(scan, OracleCall(oracle[scan.ci], scan.w.attempt))
    /\ lateCalls' = IF stop_event THEN Append(lateCalls, scan.ci) ELSE lateCalls
    /\ UNCHANGED <<oracle, evald, stop_event>>

\* stop_event.set() by the SIGINT handler, at any moment of the scan
ScanSigint ==
    /\ ~stop_event
    /\ scan.st # "done"
    /\ stop_event' = TRUE
    /\ UNCHANGED <<scan, oracle, evald, lateCalls>>

----------------------------------------------------------------------------
(* Input of a run: load_lines and validate_addresses *)

\* The non-blank lines of input_addresses.txt.  <<i, "lower">> and
\* <<i, "upper">> are two spellings of the same 20 bytes (all-lowercase and
\* all-uppercase hex), <<0, "junk">> is a line that is no address.
RawStrings == ((1..MaxAddresses) \X {"lower", "upper"}) \cup {<<0, "junk">>}

\* The input files of the model: the identities 1..k in lowercase, with or
\* without a second spelling of identity 1 and a junk line.
InputFiles ==
    {({<<i, "lower">> : i \in 1..k} \cup extra) :
        k \in 0..MaxAddresses, extra \in SUBSET {<<1, "upper">>, <<0, "junk">>}}

\* web3.is_address(addr)
is_address(raw) == raw[2] # "junk"

\* web3.to_checksum_address(addr): the one checksummed spelling of the bytes
to_checksum_address(raw) == raw[1]

\* validate_addresses over the lines in the order the set iterates
RECURSIVE validate_addresses(_)
validate_addresses(lines) ==
    IF lines = <<>>
    THEN <<>>
    ELSE LET rest == validate_addresses(Tail(lines)) IN
         IF is_address(Head(lines))
         THEN <<to_checksum_address(Head(lines))>> \o rest
         ELSE rest

\* The order in which the set of lines iterates.  Every task is treated
\* alike, so one order per set is taken: by identity, "lower" before "upper".
Before(a, b) == a[1] < b[1] \/ (a[1] = b[1] /\ a[2] = "lower" /\ b[2] # "lower")

Order(S) ==
    CHOOSE f \in [1..Cardinality(S) -> S] :
        \A i, j \in 1..Cardinality(S) : i < j => Before(f[i], f[j])

\* load_lines returns a set: no line twice
AddressLists ==
    {validate_addresses(Order(S)) :
        S \in {T \in InputFiles :
                  Cardinality({r \in T : is_address(r)}) <= MaxAddresses}}

----------------------------------------------------------------------------
(* append_results *)

Header == "address,owns_nft"

\* df.to_csv(path, mode="a", header=not path.exists(), index=False)
AppendResults(file, rows) ==
    IF rows = <<>>
    THEN file
    ELSE [exists |-> TRUE,
          lines |-> file.lines \o (IF file.exists THEN <<>> ELSE <<Header>>) \o rows]

----------------------------------------------------------------------------
(* main *)

Futures == 1..nsub

Running == {t \in Futures : task[t].st = "running"}

AllDone == \A t \in Futures : task[t].st = "done"

Init ==
    /\ addresses \in AddressLists
    /\ contracts \in {[i \in 1..n |-> i] : n \in 1..MaxContracts}
    /\ num_threads = NUM_THREADS
    /\ batch_size = BATCH_SIZE
    /\ stop_event = FALSE
    /\ mainPc = "submit"
    /\ nsub = 0
    /\ task = [i \in 1..Len(addresses) |-> ScanNew]
    /\ yielded = <<>>
    /\ buffer = <<>>
    /\ checked = 0
    /\ owned = 0
    /\ csv \in {[exists |-> FALSE, lines |-> <<>>],
                [exists |-> TRUE, lines |-> <<Header>>]}
    /\ appends = <<>>
    /\ summary = "none"
    /\ atStop = {}
    /\ ScanParked
    /\ RetryParked

\* on_sigint: stop_event.set(), at any moment of the run
Sigint ==
    /\ ~stop_event
    /\ mainPc \notin {"done", "failed"}
    /\ stop_event' = TRUE
    /\ atStop' = {t \in Futures : task[t].st \in {"running", "done"}}
    /\ UNCHANGED <<runVars, scanVars, retryVars>>

\* whether the submission loop goes on to submit addresses[nsub + 1]
SubmitsNextIgnoringStop(stop) == nsub < Len(addresses)

SubmitsNext(stop) == ~stop /\ nsub < Len(addresses)

\* one iteration of `for addr in addresses`: executor.submit
Submit ==
    /\ mainPc = "submit"
    /\ SubmitsNext(stop_event)
    /\ nsub' = nsub + 1
    /\ task' = [task EXCEPT ![nsub + 1] = ScanQueued]
    /\ UNCHANGED <<configVars, mainPc, yielded, buffer, checked,
                   owned, csv, appends, summary, stop_event, atStop,
                   scanVars, retryVars>>

\* the loop ends, by exhaustion or by its break: as_completed(futures) is next
SubmitEnd ==
    /\ mainPc = "submit"
    /\ ~SubmitsNext(stop_event)
    /\ mainPc' = "drain"
    /\ UNCHANGED <<configVars, nsub, task, yielded, buffer, checked,
                   owned, csv, appends, summary, stop_event, atStop,
                   scanVars, retryVars>>

\* whether a worker thread is free to take the next work item
WorkerFreeUnbounded == TRUE

WorkerFree == Cardinality(Running) < num_threads

\* a worker takes the oldest queued work item and enters check_nft_ownership
TaskStart(t) ==
    /\ task[t].st = "queued"
    /\ \A u \in 1..(t - 1) : task[u].st # "queued"
    /\ WorkerFree
    /\ task' = [task EXCEPT ![t] = ScanEntry(@, stop_event)]
    /\ UNCHANGED <<configVars, mainPc, nsub, yielded, buffer, checked,
                   owned, csv, appends, summary, stop_event, atStop,
                   scanVars, retryVars>>

TaskLoop(t) ==
    /\ task[t].st = "running" /\ task[t].pc = "loop"
    /\ task' = [task EXCEPT ![t] = ScanLoop(@, stop_event, Len(contracts))]
    /\ UNCHANGED <<configVars, mainPc, nsub, yielded, buffer, checked,
                   owned, csv, appends, summary, stop_event, atStop,
                   scanVars, retryVars>>

\* has_erc721_balance(address, contract) from its entry to its return or
\* raise, and what check_nft_ownership does with it.  The wrapper reads and
\* writes nothing shared while it calls and sleeps, so its iterations are
\* taken in one step here; ScanSpec takes them one by one.  The contract may
\* behave in any way of ContractBehaviours.
TaskCall(t) ==
    /\ task[t].st = "running" /\ task[t].pc = "call"
    /\ \E b \in ContractBehaviours :
         task' = [task EXCEPT ![t] = ScanAfter(@, has_erc721_balance(b))]
    /\ UNCHANGED <<configVars, mainPc, nsub, yielded, buffer, checked,
                   owned, csv, appends, summary, stop_event, atStop,
                   scanVars, retryVars>>

Yieldable(t) ==
    /\ t \in Futures
    /\ task[t].st = "done"
    /\ \A k \in 1..Len(yielded) : yielded[k] # t

\* whether the drain loop leaves at `if stop_event.is_set(): break`
DrainBreaksNever(stop) == FALSE

DrainBreaks(stop) == stop

\* as_completed yields a future and the loop breaks on stop_event
DrainBreak(t) ==
    /\ mainPc = "drain"
    /\ Yieldable(t)
    /\ DrainBreaks(stop_event)
    /\ yielded' = Append(yielded, t)
    /\ mainPc' = "shutdown"
    /\ UNCHANGED <<configVars, nsub, task, buffer, checked, owned,
                   csv, appends, summary, stop_event, atStop,
                   scanVars, retryVars>>

\* whether the loop body flushes the buffer it has just appended to
FlushesAtOffByOne(n) == n > batch_size

FlushesAt(n) == n >= batch_size

\* owned += 1 under `if owns`
OwnedAfterAlways(o, owns) == o + 1

OwnedAfter(o, owns) == IF owns THEN o + 1 ELSE o

\* buffer.clear() after the append of the loop body
BufferClearedNot(rows) == rows

BufferCleared(rows) == <<>>

\* whether `except Exception` around future.result() catches what the
\* task raised
ResultCaughtNever(f) == FALSE

ResultCaught(f) == TRUE

\* addr, owns = future.result(), or addr, owns = futures[future], False in
\* the handler
FutureResult(t) ==
    IF task[t].raised THEN <<addresses[t], FALSE>>
    ELSE <<addresses[t], task[t].result>>

\* where main goes when append_results raises in the loop body: nothing
\* catches it, it leaves main through the executor's __exit__
AppendRaisedSwallowed == "drain"

AppendRaised == "unwind"

\* as_completed yields a future; its row is buffered and counted, and the
\* buffer is flushed when it has reached BATCH_SIZE
DrainRecord(t) ==
    /\ mainPc = "drain"
    /\ Yieldable(t)
    /\ ~DrainBreaks(stop_event)
    /\ yielded' = Append(yielded, t)
    /\ IF task[t].raised /\ ~ResultCaught(t)
       THEN \* the task's exception leaves main
            /\ mainPc' = "unwind"
            /\ UNCHANGED <<checked, owned, buffer, appends, csv>>
       ELSE
       /\ checked' = checked + 1
       /\ owned' = OwnedAfter(owned, FutureResult(t)[2])
       /\ LET filled == Append(buffer, FutureResult(t)) IN
          IF FlushesAt(Len(filled))
          THEN /\ appends' = Append(appends, filled)
               /\ \/ /\ csv' = AppendResults(csv, filled)
                     /\ buffer' = BufferCleared(filled)
                     /\ mainPc' = mainPc
                  \/ \* to_csv raises
                     /\ csv' = csv
                     /\ buffer' = filled
                     /\ mainPc' = AppendRaised
          ELSE /\ buffer' = filled
               /\ UNCHANGED <<appends, csv, mainPc>>
    /\ UNCHANGED <<configVars, nsub, task, summary, stop_event, atStop,
                   scanVars, retryVars>>

\* as_completed is exhausted
DrainEnd ==
    /\ mainPc = "drain"
    /\ \A t \in Futures : ~Yieldable(t) /\ task[t].st = "done"
    /\ mainPc' = "shutdown"
    /\ UNCHANGED <<configVars, nsub, task, yielded, buffer, checked,
                   owned, csv, appends, summary, stop_event, atStop,
                   scanVars, retryVars>>

\* ThreadPoolExecutor.__exit__: shutdown(wait=True) returns once every
\* submitted work item has run
Shutdown ==
    /\ mainPc = "shutdown"
    /\ AllDone
    /\ mainPc' = "final"
    /\ UNCHANGED <<configVars, nsub, task, yielded, buffer, checked,
                   owned, csv, appends, summary, stop_event, atStop,
                   scanVars, retryVars>>

\* the same __exit__ with an exception in flight
Unwind ==
    /\ mainPc = "unwind"
    /\ AllDone
    /\ mainPc' = "failed"
    /\ UNCHANGED <<configVars, nsub, task, yielded, buffer, checked,
                   owned, csv, appends, summary, stop_event, atStop,
                   scanVars, retryVars>>

\* whether the final flush is made
FinalFlushesNever(rows) == FALSE

FinalFlushes(rows) == rows # <<>>

\* if buffer: append_results(buffer, OUTPUT_FILE, write_lock)
FinalFlush ==
    /\ mainPc = "final"
    /\ IF FinalFlushes(buffer)
       THEN /\ appends' = Append(appends, buffer)
            /\ \/ /\ csv' = AppendResults(csv, buffer)
                  /\ mainPc' = "summary"
               \/ /\ csv' = csv
                  /\ mainPc' = "failed"
       ELSE /\ mainPc' = "summary"
            /\ UNCHANGED <<appends, csv>>
    /\ UNCHANGED <<configVars, nsub, task, yielded, buffer, checked,
                   owned, summary, stop_event, atStop,
                   scanVars, retryVars>>

\* ratio = owned / checked if checked else 0.0, as a fraction
RatioUnguarded(o, c) == <<o, c>>

Ratio(o, c) == IF c # 0 THEN <<o, c>> ELSE <<0, 1>>

\* the "Completed" log line
Summarise ==
    /\ mainPc = "summary"
    /\ summary' = [checked |-> checked, owned |-> owned,
                   ratio |-> Ratio(owned, checked)]
    /\ mainPc' = "done"
    /\ UNCHANGED <<configVars, nsub, task, yielded, buffer, checked,
                   owned, csv, appends, stop_event, atStop,
                   scanVars, retryVars>>

Next ==
    \/ Sigint
    \/ Submit
    \/ SubmitEnd
    \/ \E t \in 1..Len(addresses) : TaskStart(t)
    \/ \E t \in 1..Len(addresses) : TaskLoop(t)
    \/ \E t \in 1..Len(addresses) : TaskCall(t)
    \/ \E t \in 1..Len(addresses) : DrainBreak(t)
    \/ \E t \in 1..Len(addresses) : DrainRecord(t)
    \/ DrainEnd
    \/ Shutdown
    \/ Unwind
    \/ FinalFlush
    \/ Summarise

Spec == Init /\ [][Next]_vars

----------------------------------------------------------------------------
(* FairSpec: the run with threads that keep being scheduled and calls that  *)
(* return or raise: as long as main or a worker can take a step, one of     *)
(* them does.  The SIGINT may never come.                                   *)

MainStep ==
    \/ Submit
    \/ SubmitEnd
    \/ \E t \in 1..Len(addresses) : DrainBreak(t)
    \/ \E t \in 1..Len(addresses) : DrainRecord(t)
    \/ DrainEnd
    \/ Shutdown
    \/ Unwind
    \/ FinalFlush
    \/ Summarise

WorkerStep ==
    \/ \E t \in 1..Len(addresses) : TaskStart(t)
    \/ \E t \in 1..Len(addresses) : TaskLoop(t)
    \/ \E t \in 1..Len(addresses) : TaskCall(t)

\* every step of main or of a worker changes one of these
stepVars == <<mainPc, nsub, task, yielded>>

\* whether the output file exists beforehand makes no difference to the
\* steps a run can take
FairInit == Init /\ ~csv.exists

FairSpec == FairInit /\ [][Next]_vars /\ WF_stepVars(MainStep \/ WorkerStep)

----------------------------------------------------------------------------
(* CrashSpec: a run in which a scan task may end with an exception.  Every  *)
(* call check_nft_ownership makes that can raise sits inside its try, so    *)
(* Spec has no such step; here an exception may leave a running task at any *)
(* point, which is the case the handler around future.result() is for.      *)

TaskRaise(t) ==
    /\ task[t].st = "running"
    /\ task' = [task EXCEPT ![t] = ScanRaise(@)]
    /\ UNCHANGED <<configVars, mainPc, nsub, yielded, buffer, checked,
                   owned, csv, appends, summary, stop_event, atStop,
                   scanVars, retryVars>>

CrashNext ==
    \/ Next
    \/ \E t \in 1..Len(addresses) : TaskRaise(t)

\* one contract and no output file yet: where in its scan a task raises
\* makes no difference to main
CrashInit == Init /\ Len(contracts) = 1 /\ ~csv.exists

CrashSpec == CrashInit /\ [][CrashNext]_vars

----------------------------------------------------------------------------
(* CancelSpec: the run of one scenario.  One worker thread, MaxAddresses    *)
(* identities, a batch size no run can fill, and a SIGINT that arrives when *)
(* exactly 2 scans have finished.                                           *)

CancelInit ==
    /\ addresses = [i \in 1..MaxAddresses |-> i]
    /\ contracts \in {[i \in 1..n |-> i] : n \in 1..MaxContracts}
    /\ num_threads = 1
    /\ batch_size = MaxAddresses + 1
    /\ stop_event = FALSE
    /\ mainPc = "submit"
    /\ nsub = 0
    /\ task = [i \in 1..Len(addresses) |-> ScanNew]
    /\ yielded = <<>>
    /\ buffer = <<>>
    /\ checked = 0
    /\ owned = 0
    /\ csv \in {[exists |-> FALSE, lines |-> <<>>],
                [exists |-> TRUE, lines |-> <<Header>>]}
    /\ appends = <<>>
    /\ summary = "none"
    /\ atStop = {}
    /\ ScanParked
    /\ RetryParked

CancelSigint ==
    /\ Cardinality({t \in Futures : task[t].st = "done"}) = 2
    /\ Sigint

\* no batch fills in the loop, so no append of the loop can fail: no Unwind
CancelNext ==
    \/ CancelSigint
    \/ Submit
    \/ SubmitEnd
    \/ \E t \in 1..Len(addresses) : TaskStart(t)
    \/ \E t \in 1..Len(addresses) : TaskLoop(t)
    \/ \E t \in 1..Len(addresses) : TaskCall(t)
    \/ \E t \in 1..Len(addresses) : DrainBreak(t)
    \/ \E t \in 1..Len(addresses) : DrainRecord(t)
    \/ DrainEnd
    \/ Shutdown
    \/ FinalFlush
    \/ Summarise

CancelSpec == CancelInit /\ [][CancelNext]_vars

----------------------------------------------------------------------------
(* The two small specifications *)

RunParked ==
    /\ addresses = <<>>
    /\ contracts = <<>>
    /\ mainPc = "off"
    /\ nsub = 0
    /\ task = <<>>
    /\ yielded = <<>>
    /\ buffer = <<>>
    /\ checked = 0
    /\ owned = 0
    /\ csv = [exists |-> FALSE, lines |-> <<>>]
    /\ appends = <<>>
    /\ summary = "none"
    /\ atStop = {}
    /\ num_threads = 0
    /\ batch_size = 0

ScanSpecInit == ScanInit /\ stop_event = FALSE /\ RunParked /\ RetryParked

ScanNext ==
    \/ ScanBegin /\ UNCHANGED <<runVars, atStop, retryVars>>
    \/ ScanLoopStep /\ UNCHANGED <<runVars, atStop, retryVars>>
    \/ ScanCallStep /\ UNCHANGED <<runVars, atStop, retryVars>>
    \/ ScanSigint /\ UNCHANGED <<runVars, atStop, retryVars>>

ScanSpec == ScanSpecInit /\ [][ScanNext]_vars

RetrySpecInit == RetryInit /\ stop_event = FALSE /\ RunParked /\ ScanParked

RetryNext ==
    \/ RetryCall /\ UNCHANGED <<runVars, stop_event, atStop, scanVars>>
    \/ RetryAgain /\ UNCHANGED <<runVars, stop_event, atStop, scanVars>>

RetrySpec == RetrySpecInit /\ [][RetryNext]_vars

----------------------------------------------------------------------------
(* Vocabulary of the properties *)

Range(q) == {q[k] : k \in 1..Len(q)}

Count(q, x) == Cardinality({k \in 1..Len(q) : q[k] = x})

RECURSIVE Flatten(_)
Flatten(qs) == IF qs = <<>> THEN <<>> ELSE Head(qs) \o Flatten(Tail(qs))

\* every row handed to append_results so far, in order
Flushed == Flatten(appends)

\* the ResultRecord of future t
Row(t) == <<addresses[t], task[t].result>>

\* the records of the futures as_completed has yielded, in order
Received == [k \in 1..Len(yielded) |-> Row(yielded[k])]

\* the futures whose record went into the buffer: every yield but a breaking one
Recorded == {yielded[k] : k \in 1..checked}

\* the rows main has buffered so far, in order
Taken ==
    IF appends # <<>> /\ appends[Len(appends)] = buffer
    THEN Flushed
    ELSE Flushed \o buffer

\* the data rows of the output file
CsvRows == {k \in 1..Len(csv.lines) : csv.lines[k] # Header}

Ceil(n, b) == (n + b - 1) \div b

RECURSIVE Pow2(_)
Pow2(n) == IF n = 0 THEN 1 ELSE 2 * Pow2(n - 1)

\* the outcome of one resource for the scanned identity, retries included
ResourceOutcome(b) ==
    IF b.fails >= MAX_RETRIES \/ b.then \in OtherErrors
    THEN "Failed"
    ELSE IF b.then = "True" THEN "Positive" ELSE "Negative"

HasPositive == \E c \in 1..Len(oracle) : ResourceOutcome(oracle[c]) = "Positive"

FirstPositive ==
    CHOOSE c \in 1..Len(oracle) :
        /\ ResourceOutcome(oracle[c]) = "Positive"
        /\ \A d \in 1..(c - 1) : ResourceOutcome(oracle[d]) # "Positive"

UpTo(n) == [k \in 1..n |-> k]

----------------------------------------------------------------------------
(* Properties of a run (Spec) *)

\* C1: when the run is Done, the batches passed to append_results hold each
\* record of a future yielded by as_completed exactly once, none dropped and
\* none twice, and no identity has more than one record.
C1_ReceivedFlushedExactlyOnce ==
    mainPc = "done" =>
        /\ Len(Flushed) = Len(Received)
        /\ \A x \in Range(Flushed) \cup Range(Received) :
              Count(Flushed, x) = Count(Received, x)
        /\ \A i, j \in 1..Len(Flushed) : i # j => Flushed[i][1] # Flushed[j][1]

\* C2: when the run is Done, every identity whose scan was finished or in
\* flight when stop_event was set has its record counted and in a flushed batch.
C2_CancellationKeepsWork ==
    mainPc = "done" =>
        /\ summary.checked = Cardinality(Recorded)
        /\ \A t \in atStop :
              /\ t \in Recorded
              /\ Count(Flushed, Row(t)) >= 1

\* C7: never more than NUM_THREADS scans are executing at once.
C7_AtMostNumThreadsRunning == Cardinality(Running) <= NUM_THREADS

\* the pool is saturated while work is still queued
C7_Witness ==
    /\ Cardinality(Running) = NUM_THREADS
    /\ \E t \in Futures : task[t].st = "queued"

\* C8: once stop_event is set nothing more is submitted and no scan that had
\* not begun goes on to evaluate a resource (a work item taken from the queue
\* afterwards returns at its entry check); and the main thread leaves the
\* executor only when every submitted scan has finished.
C8_NoNewScanAfterStop ==
    /\ [][stop_event =>
            /\ nsub' = nsub
            /\ \A t \in 1..Len(addresses) :
                  task[t].st \in {"new", "queued"} => task'[t].st # "running"]_vars
    /\ [](mainPc \in {"final", "summary", "done", "failed"} => AllDone)

\* a work item that was still queued when stop_event was set has been taken
\* by a worker and has returned, while an address was never submitted
C8_Witness ==
    /\ stop_event
    /\ nsub < Len(addresses)
    /\ \E t \in Futures \ atStop : task[t].st = "done"

\* C9: in a run in which stop_event was set, at Done the partial batch has
\* been appended to the file and the summary's checked is the number of rows
\* the run has persisted.
C9_FinalFlushAfterCancel ==
    (mainPc = "done" /\ stop_event) =>
        /\ buffer # <<>> =>
              /\ appends # <<>>
              /\ appends[Len(appends)] = buffer
              /\ Len(csv.lines) >= Len(buffer)
              /\ SubSeq(csv.lines, Len(csv.lines) - Len(buffer) + 1,
                        Len(csv.lines)) = buffer
        /\ summary.checked = Cardinality(CsvRows)

\* the drain loop broke on stop_event with a record in the partial batch
C9_Witness ==
    /\ mainPc = "done"
    /\ stop_event
    /\ buffer # <<>>
    /\ Len(yielded) > checked

\* C10: in a run without cancellation over n addresses, append_results is
\* invoked ceil(n / BATCH_SIZE) times, each time but the last with BATCH_SIZE
\* rows, the last time with the rest, never with none.
C10_BatchBoundaries ==
    (mainPc = "done" /\ ~stop_event) =>
        LET n == Len(addresses)
            m == Ceil(n, BATCH_SIZE)
        IN /\ Len(appends) = m
           /\ \A k \in 1..Len(appends) :
                 /\ Len(appends[k]) > 0
                 /\ Len(appends[k]) =
                      IF k < m THEN BATCH_SIZE ELSE n - BATCH_SIZE * (m - 1)

\* a full batch followed by a partial final one
C10_Witness ==
    /\ mainPc = "done"
    /\ ~stop_event
    /\ Len(appends) >= 2
    /\ Len(appends[1]) = BATCH_SIZE
    /\ Len(appends[Len(appends)]) < BATCH_SIZE

----------------------------------------------------------------------------
(* Properties of one scan (ScanSpec) *)

\* C3 as stated: whenever some resource of the list produces Positive, the
\* scan returns owned = true having evaluated exactly the resources up to the
\* first Positive one, in order.
C3_ShortCircuitAlways ==
    (scan.st = "done" /\ HasPositive) =>
        /\ scan.result
        /\ evald = UpTo(FirstPositive)

\* C3 amended: the same for a scan that does not find stop_event set at its
\* entry check or at a check before a resource.
C3_ShortCircuit ==
    (scan.st = "done" /\ ~scan.cut /\ HasPositive) =>
        /\ scan.result
        /\ evald = UpTo(FirstPositive)

\* the second resource is the first Positive one, after a Failed one
C3_Witness ==
    /\ scan.st = "done"
    /\ scan.result
    /\ Len(oracle) >= 2
    /\ ResourceOutcome(oracle[1]) = "Failed"
    /\ FirstPositive = 2
    /\ evald = <<1, 2>>

\* C4 as stated: when the list is empty or every resource yields Negative or
\* Failed, the scan returns owned = false after exactly len(resources)
\* evaluations.
C4_ExhaustiveAlways ==
    (scan.st = "done" /\ ~HasPositive) =>
        /\ ~scan.result
        /\ evald = UpTo(Len(oracle))

\* C4 amended: the same for a scan that does not find stop_event set at its
\* entry check or at a check before a resource.
C4_Exhaustive ==
    (scan.st = "done" /\ ~scan.cut /\ ~HasPositive) =>
        /\ ~scan.result
        /\ evald = UpTo(Len(oracle))

\* a Failed resource and then a Negative one, both evaluated
C4_Witness ==
    /\ scan.st = "done"
    /\ ~scan.cut
    /\ ~scan.result
    /\ Len(oracle) >= 2
    /\ ResourceOutcome(oracle[1]) = "Failed"
    /\ ResourceOutcome(oracle[2]) = "Negative"
    /\ Len(evald) = Len(oracle)

----------------------------------------------------------------------------
(* Properties of the retry wrapper (RetrySpec) *)

\* the failures the design calls Permanent: a contract-level rejection, or
\* any failure outside the retried ones
PermanentKinds == {"ContractLogicError"} \cup OtherErrors

C6_SucceedsOnKthAttempt ==
    (rw.st # "running" /\ rwOp.exc \in retry_exceptions /\ rwOp.fails < rwMax) =>
        /\ rw.st = "returned"
        /\ rw.val = rwOp.then
        /\ rwCalls = rwOp.fails + 1
        /\ Len(rwSleeps) = rwOp.fails
        /\ \A i \in 1..Len(rwSleeps) :
              /\ rwSleeps[i] >= BASE_DELAY * Pow2(i - 1) * 1000
              /\ rwSleeps[i] < BASE_DELAY * Pow2(i) * 1300

\* success on the last allowed attempt, after max_retries - 1 sleeps
C6_Witness ==
    /\ rw.st = "returned"
    /\ rwOp.exc \in retry_exceptions
    /\ rwMax = MAX_RETRIES
    /\ rwOp.fails = MAX_RETRIES - 1
    /\ rwCalls = MAX_RETRIES
    /\ Len(rwSleeps) = MAX_RETRIES - 1

----------------------------------------------------------------------------
(* More properties of a run (Spec) *)

\* the records main has taken from the pool that are not in the file
Unpersisted == checked - Cardinality(CsvRows)

\* C11: at every moment at most BATCH_SIZE records that main has received are
\* not yet in the file, and fewer than BATCH_SIZE between two iterations of
\* the drain loop; this also holds counting a future that was yielded and
\* dropped by the break.
C11_AtMostOneBatchUnpersisted ==
    /\ Unpersisted >= 0
    /\ Unpersisted <= BATCH_SIZE
    /\ Len(yielded) - Cardinality(CsvRows) <= BATCH_SIZE
    /\ mainPc = "drain" => Unpersisted < BATCH_SIZE
    /\ mainPc \in {"submit", "drain", "shutdown", "final", "unwind"} =>
          Unpersisted = Len(buffer)

\* an append of a full batch has failed: a whole batch is lost
C11_Witness ==
    /\ mainPc = "unwind"
    /\ Unpersisted = BATCH_SIZE
    /\ Cardinality(CsvRows) = 0

\* append_results was invoked with rows that are not in the file: it raised
AppendFailed == Len(Flushed) > Cardinality(CsvRows)

\* C12: once append_results has raised, main is on its way out with the
\* exception (or out), append_results is not invoked again, the file is not
\* written again and no "Completed" line is or gets logged.
C12_AppendFailureFatal ==
    /\ [](AppendFailed => mainPc \in {"unwind", "failed"} /\ summary = "none")
    /\ [][AppendFailed =>
            /\ appends' = appends
            /\ csv' = csv
            /\ summary' = "none"
            /\ mainPc' \in {"unwind", "failed"}]_vars

\* the append of the first batch raised, a later result was never taken
C12_Witness ==
    /\ AppendFailed
    /\ mainPc = "failed"
    /\ Len(appends) = 1
    /\ \E t \in Futures : Yieldable(t)

\* the futures whose scan returned owns = True
Owners == {t \in Futures : task[t].result}

\* C14: the summary of a run that was not cancelled: checked is the number
\* of submitted addresses, which are all of them, owners is the number of
\* scans that found a Positive (no scan was cut short), and the ratio is
\* owners / checked, or 0 when nothing was checked.
C14_SummaryOfFullRun ==
    mainPc = "done" /\ ~stop_event =>
        /\ nsub = Len(addresses)
        /\ \A t \in Futures : task[t].st = "done" /\ ~task[t].cut
        /\ summary.checked = nsub
        /\ summary.owned = Cardinality(Owners)
        /\ summary.ratio =
              IF nsub = 0 THEN <<0, 1>> ELSE <<Cardinality(Owners), nsub>>

\* 3 identities of which 2 own
C14_Witness ==
    /\ mainPc = "done" /\ ~stop_event
    /\ Len(addresses) = 3
    /\ summary.checked = 3
    /\ summary.owned = 2
    /\ summary.ratio = <<2, 3>>

\* C16 as stated: every run reaches Done and stays there
C16_AlwaysReachesDone ==
    /\ <>(mainPc = "done")
    /\ [][mainPc = "done" => mainPc' = "done"]_vars

\* the final flush has been made: nothing buffered is missing from the file
FinalFlushed == buffer = <<>> \/ (appends # <<>> /\ appends[Len(appends)] = buffer)

Ended == mainPc \in {"done", "failed"}

\* the "Completed" line has been logged, with the counters
SummaryLogged ==
    IF mainPc = "done"
    THEN summary.checked = checked /\ summary.owned = owned
    ELSE FALSE

\* the end of a run: Done, with every worker finished, the final flush made
\* and the summary logged, or the exception of a failed append, with every
\* worker finished and no summary
EndedWell ==
    /\ Ended
    /\ AllDone
    /\ mainPc = "done" => FinalFlushed /\ ~AppendFailed /\ SummaryLogged
    /\ mainPc = "failed" => AppendFailed /\ ~SummaryLogged

\* C16: every run ends, in Done or, after a failed append, with that
\* exception, whether or not stop_event is set on the way; and nothing
\* happens after the end.
C16_RunEnds ==
    /\ <>EndedWell
    /\ [][Ended => mainPc' = mainPc /\ csv' = csv /\ appends' = appends]_vars

\* a cancelled run has reached Done
C16_Witness ==
    /\ mainPc = "done"
    /\ stop_event
    /\ nsub < Len(addresses)
    /\ SummaryLogged

\* C19: every record main has buffered is the return value of a scan that
\* was not cut short by stop_event (or the (address, False) of a task that
\* raised): False from a scan that went through every contract, True from a
\* scan that found a Positive.
C19_NoTruncatedRecord ==
    /\ Len(Taken) = checked
    /\ \A k \in 1..checked :
          /\ task[yielded[k]].st = "done"
          /\ ~task[yielded[k]].cut
          /\ Taken[k] = FutureResult(yielded[k])
          /\ Taken[k][2] = (task[yielded[k]].result /\ ~task[yielded[k]].raised)

\* a scan was cut short and its future yielded, after another was recorded
C19_Witness ==
    /\ mainPc = "done"
    /\ checked >= 1
    /\ \E k \in 1..Len(yielded) : task[yielded[k]].cut

\* C20: between two iterations of the drain loop, checked is the number of
\* rows in the file plus the number of rows in the buffer, owned is the
\* number of those rows with owns = True, and
\* 0 <= owned <= checked <= number of submitted futures.
C20_CountersConsistent ==
    mainPc = "drain" =>
        /\ checked = Cardinality(CsvRows) + Len(buffer)
        /\ owned =
             Cardinality({k \in CsvRows : csv.lines[k][2]})
               + Cardinality({k \in 1..Len(buffer) : buffer[k][2]})
        /\ 0 <= owned
        /\ owned <= checked
        /\ checked <= nsub

\* in the loop after a flush, with rows in the file and in the buffer, some
\* owning and some not
C20_Witness ==
    /\ mainPc = "drain"
    /\ Cardinality(CsvRows) = BATCH_SIZE
    /\ Len(buffer) >= 1
    /\ owned >= 1
    /\ owned < checked
    /\ checked = nsub

----------------------------------------------------------------------------
(* Properties of a run in which tasks may raise (CrashSpec) *)

\* C13: an exception that leaves a scan task becomes the record
\* (address, False) of that task; main fails only if an append fails; and a
\* run that is not cancelled and whose appends succeed ends with every task
\* run, counted and flushed, whatever tasks raised.
C13_TaskFailureContained ==
    /\ Len(Taken) = checked
    /\ \A k \in 1..checked :
          /\ Taken[k] = FutureResult(yielded[k])
          /\ task[yielded[k]].raised => Taken[k] = <<addresses[yielded[k]], FALSE>>
    /\ mainPc \in {"unwind", "failed"} => AppendFailed
    /\ mainPc = "done" /\ ~stop_event =>
          /\ AllDone
          /\ nsub = Len(addresses)
          /\ summary.checked = Len(addresses)
          /\ Len(Flushed) = Len(addresses)
          /\ \A t \in Futures : Count(Flushed, FutureResult(t)) >= 1

\* a task raised, its sibling was found to own, both are counted and flushed
C13_Witness ==
    /\ mainPc = "done" /\ ~stop_event
    /\ \E t, u \in Futures : task[t].raised /\ task[u].result
    /\ summary.checked = Len(addresses)
    /\ summary.owned >= 1

----------------------------------------------------------------------------
(* The cancellation scenario (CancelSpec) *)

\* C15: with one worker, MaxAddresses identities and a batch size above
\* that, when stop_event is set after exactly 2 scans have finished, the
\* summary reports checked = 2, or 3 if a third scan was in flight, and
\* append_results is invoked exactly once, with exactly the records of those
\* scans.  (With one worker the finished scans are those of futures 1 and 2.)
C15_CancelAfterTwo ==
    mainPc = "done" /\ stop_event =>
        /\ summary.checked \in {2, 3}
        /\ summary.checked = 3 => Cardinality(atStop) = 3
        /\ Len(appends) = 1
        /\ Len(appends[1]) = summary.checked
        /\ {Row(1), Row(2)} \subseteq Range(appends[1])
        /\ Range(appends[1]) \subseteq {Row(t) : t \in atStop}

----------------------------------------------------------------------------
(* More properties of the retry wrapper (RetrySpec) *)

\* the operation raises a retried exception on every attempt
TransientForever == rwOp.exc \in retry_exceptions /\ rwOp.fails >= rwMax

\* C17: against an operation that fails transiently on every attempt, every
\* invocation, the first as well as a later one, starts at attempt 1 with
\* delay BASE_DELAY, sleeps after each failed attempt but the last, and
\* raises after exactly max_retries calls and max_retries - 1 sleeps.
C17_GivesUpAfterMaxAttempts ==
    TransientForever =>
        /\ rw.st # "returned"
        /\ rwCalls <= rwMax
        /\ rw.st = "running" =>
              /\ rw.attempt = rwCalls + 1
              /\ rw.delay = BASE_DELAY * Pow2(rwCalls)
              /\ Len(rwSleeps) = rwCalls
        /\ rw.st = "raised" =>
              /\ rwCalls = rwMax
              /\ Len(rwSleeps) = rwMax - 1
              /\ rw.val = rwOp.exc
        /\ \A k \in 1..Len(rwSleeps) :
              /\ rwSleeps[k] >= BASE_DELAY * Pow2(k - 1) * 1000
              /\ rwSleeps[k] < BASE_DELAY * Pow2(k - 1) * 1300

\* a second invocation has given up after MAX_RETRIES calls
C17_Witness ==
    /\ TransientForever
    /\ rwRound = 2
    /\ rwMax = MAX_RETRIES
    /\ rw.st = "raised"
    /\ rwCalls = MAX_RETRIES
    /\ Len(rwSleeps) = MAX_RETRIES - 1

----------------------------------------------------------------------------
(* More properties of one scan (ScanSpec) *)

\* C18: a scan that finds stop_event set at its check before a contract
\* returns False there and then, with no further call; with the flag set no
\* further contract passes the check, so the calls made after the flag was
\* set all belong to one contract, the one being evaluated or just checked
\* when it was set, and they are the attempts of one retry loop: at most
\* MAX_RETRIES of them.
C18_NoFurtherResourceAfterStop ==
    /\ [](scan.cut => scan.st = "done" /\ ~scan.result)
    /\ [](/\ Cardinality(Range(lateCalls)) <= 1
          /\ Len(lateCalls) <= MAX_RETRIES
          /\ lateCalls # <<>> => lateCalls[1] = evald[Len(evald)])
    /\ [][stop_event =>
            /\ evald' = evald
            /\ (scan.st = "queued" /\ scan' # scan => scan'.cut)
            /\ (scan.st = "running" /\ scan.pc = "loop" /\ scan.ci <= Len(oracle)
                   => scan'.cut /\ lateCalls' = lateCalls)]_vars

\* the flag was set between the check before contract 1 and its first call:
\* the whole retry loop of contract 1 ran after it, and the check before
\* contract 2 ended the scan
C18_Witness ==
    /\ Len(oracle) = 2
    /\ Len(lateCalls) = MAX_RETRIES
    /\ evald = <<1>>
    /\ scan.cut

====
